---- MODULE Spec2Model ----
(***************************************************************************)
(* TinkerFlow, Backend/query_cohere_main.py: get_project_info_cohere.      *)
(* One project query: the chat exchange with the model (with one optional  *)
(* round of catalog tool calls), then the normalisation of the raw         *)
(* connection strings into the indexed components/connections lists.       *)
(*                                                                         *)
(* Python strings that the code takes apart (connection strings, names,    *)
(* connector labels) are sequences of one-character strings; opaque        *)
(* strings (roles, catalog keys, ids, prompts) are TLA+ strings.  A JSON   *)
(* text is [kind |-> "json", value |-> v] (what json.dumps(v) writes and    *)
(* json.loads reads back) or [kind |-> "text", ...] (not JSON).            *)
(***************************************************************************)
EXTENDS Integers, Sequences, FiniteSets, TLC

VARIABLES
    objects_using,    \* the materials list the caller passed
    pc,               \* position in get_project_info_cohere
    messages,         \* the conversation sent with each chat request
    requests,         \* the chat requests made so far (the stub client's log)
    response,         \* the latest response.message, None before the first
    tc,               \* number of tool calls of the response executed so far
    resp1,            \* the parsed description, None before json.loads
    all_components,   \* known component-instance names
    all_connections,  \* parallel list of pair-label lists
    ci,               \* number of raw connection strings processed so far
    result,           \* the value returned, None while running
    catalog           \* COMPONENT_DATABASE

vars == <<objects_using, pc, messages, requests, response, tc, resp1,
          all_components, all_connections, ci, result, catalog>>

\* ---------------------------------------------------------------- bounds
MaxConn == 2        \* raw connection strings in one description
MaxToolCalls == 2   \* tool calls in one response

None == [kind |-> "None"]

Range(s) == {s[i] : i \in 1..Len(s)}

SeqsUpTo(S, n) == UNION {[1..k -> S] : k \in 0..n}

\* ------------------------------------------------------- python helpers
Return(v) == [raised |-> FALSE, value |-> v]
Raise(e) == [raised |-> TRUE, value |-> e]

\* str.split(sep): every occurrence of sep separates two parts.
RECURSIVE split(_, _)
split(s, sep) ==
    IF \A i \in 1..Len(s) : s[i] # sep
    THEN <<s>>
    ELSE LET k == CHOOSE i \in 1..Len(s) :
                     s[i] = sep /\ \A j \in 1..(i - 1) : s[j] # sep
         IN  <<SubSeq(s, 1, k - 1)>> \o split(SubSeq(s, k + 1, Len(s)), sep)

\* list.index(x): the first position holding x.
index(list, x) ==
    CHOOSE i \in 1..Len(list) : list[i] = x /\ \A j \in 1..(i - 1) : list[j] # x

\* sep.join(list)
RECURSIVE join(_, _)
join(list, sep) ==
    IF Len(list) = 0 THEN <<>>
    ELSE IF Len(list) = 1 THEN list[1]
    ELSE list[1] \o sep \o join(Tail(list), sep)

json_dumps(v) == [kind |-> "json", value |-> v]

json_loads(t) ==
    IF t.kind = "json" THEN Return(t.value) ELSE Raise("JSONDecodeError")

\* ------------------------------------------------------------- catalog
\* COMPONENT_DATABASE; a dict keeps its keys in insertion order ("order").
COMPONENT_DATABASE ==
    [components |->
        ("Arduino Nano" :>
            [type |-> "microcontroller",
             pins |-> [digital |-> <<"D2", "D3", "D4", "D5", "D6", "D7", "D8",
                                     "D9", "D10", "D11", "D12", "D13">>,
                       analog |-> <<"A0", "A1", "A2", "A3", "A4", "A5", "A6", "A7">>,
                       power |-> <<"+5V", "3.3V", "GND", "VIN">>],
             specifications |-> [operating_voltage |-> "5V",
                                 input_voltage |-> "7-12V",
                                 digital_pins |-> 14,
                                 analog_pins |-> 8]])
        @@ ("L298N Motor Driver" :>
            [type |-> "motor_driver",
             pins |-> [motor_a |-> <<"OUT1", "OUT2">>,
                       motor_b |-> <<"OUT3", "OUT4">>,
                       control |-> <<"IN1", "IN2", "IN3", "IN4", "ENA", "ENB">>,
                       power |-> <<"+12V", "+5V", "GND">>],
             specifications |-> [max_current |-> "2A",
                                 logic_voltage |-> "5V",
                                 motor_voltage |-> "5V-35V"]])
        @@ ("DC Motor" :>
            [type |-> "actuator",
             pins |-> [terminals |-> <<"+", "-">>],
             specifications |-> [voltage |-> "3V-12V", current |-> "0.1A-2A"]])
        @@ ("9V Battery" :>
            [type |-> "power_source",
             pins |-> [terminals |-> <<"+", "-">>],
             specifications |-> [voltage |-> "9V", capacity |-> "500mAh-1000mAh"]]),
     order |-> <<"Arduino Nano", "L298N Motor Driver", "DC Motor", "9V Battery">>,
     project_templates |->
        [robot_car |->
            [difficulty |-> "intermediate",
             time_estimate |-> "2-3 hours",
             required_components |-> <<"Arduino Nano", "L298N Motor Driver",
                                       "DC Motor", "9V Battery">>]]]

\* Mutant: the catalog is indexed without the membership test.
get_component_info_unchecked(component_name) ==
    IF component_name \in DOMAIN catalog.components
    THEN Return(json_dumps(catalog.components[component_name]))
    ELSE Raise("KeyError")

\* get_component_info(component_name)
get_component_info(component_name) ==
    IF component_name \in DOMAIN catalog.components
    THEN Return(json_dumps(catalog.components[component_name]))
    ELSE Return(json_dumps(
            [error |-> <<"Component '", component_name, "' not found in database">>]))

\* get_all_components()
get_all_components == Return(json_dumps(catalog.order))

\* get_project_templates()
get_project_templates == Return(json_dumps(catalog.project_templates))

\* handle_tool_call(tool_call): the tool's JSON text, or what it raises.
handle_tool_call(tool_call) ==
    IF tool_call.function.name = "get_component_info"
    THEN LET args == json_loads(tool_call.function.arguments)
         IN  IF args.raised THEN args
             ELSE IF "component_name" \notin DOMAIN args.value
             THEN Raise("KeyError")
             ELSE get_component_info(args.value["component_name"])
    ELSE IF tool_call.function.name = "get_all_components"
    THEN get_all_components
    ELSE IF tool_call.function.name = "get_project_templates"
    THEN get_project_templates
    ELSE Return(json_dumps([error |-> <<"Unknown tool">>]))

\* TOOLS: the tool definitions sent with the first request.
TOOLS == <<"get_component_info", "get_all_components", "get_project_templates">>

\* get_query(objects_using)
get_query(objects) ==
    [text |-> "Given ONLY the following materials: ",
     materials |-> join(objects, <<",", " ">>)]

\* The system and user messages the conversation starts with.
InitialMessages(objects) ==
    << [role |-> "system", content |-> "personality + message_format"],
       [role |-> "user", content |-> get_query(objects)] >>

\* The assistant message that repeats the response's tool calls.
AssistantMessage(message) ==
    [role |-> "assistant",
     content |-> message.content,
     tool_calls |-> [i \in 1..Len(message.tool_calls) |->
                        [id |-> message.tool_calls[i].id,
                         type |-> "function",
                         function |->
                            [name |-> message.tool_calls[i].function.name,
                             arguments |-> message.tool_calls[i].function.arguments]]]]

\* The tool message that carries one tool call's result.
ToolMessage(tool_call, tool_result) ==
    [role |-> "tool", content |-> tool_result, tool_call_id |-> tool_call.id]

\* The value returned from the except clause.
ErrorResult(e) == [error |-> e]

\* ---------------------------------------------------------- normalizer
\* A (all_components, all_connections) pair.
Graph(components, connections) ==
    [components |-> components, connections |-> connections]

\* a, b = parts: unpacking into two names needs exactly two parts.
Unpack2(parts) ==
    IF Len(parts) = 2 THEN Return(parts) ELSE Raise("ValueError")

\* Mutant: a new name is put first, not last.
RegisterInFront(graph, name) ==
    IF name \in Range(graph.components)
    THEN graph
    ELSE Graph(<<name>> \o graph.components, <<<<>>>> \o graph.connections)

\* if name not in all_components: append the name and an empty list.
Register(graph, name) ==
    IF name \in Range(graph.components)
    THEN graph
    ELSE Graph(Append(graph.components, name), Append(graph.connections, <<>>))

\* Mutant: the label is built from the second endpoint's connector first.
combo_name_reversed(connector_name1, connector_name2) ==
    connector_name2 \o <<"/">> \o connector_name1

\* combo_name = connector_name1 + "/" + connector_name2
combo_name(connector_name1, connector_name2) ==
    connector_name1 \o <<"/">> \o connector_name2

\* Mutant: a label the list already holds is not appended again.
AppendLabelOnce(graph, name, combo) ==
    LET i == index(graph.components, name)
    IN  IF combo \in Range(graph.connections[i])
        THEN graph
        ELSE [graph EXCEPT !.connections[i] = Append(@, combo)]

\* all_connections[all_components.index(name)].append(combo)
AppendLabel(graph, name, combo) ==
    [graph EXCEPT !.connections[index(graph.components, name)] = Append(@, combo)]

\* Mutant: a self-loop gets its label once.
ConnectOncePerName(graph, name1, connector_name1, name2, connector_name2) ==
    LET g2 == Register(Register(graph, name1), name2)
        combo == combo_name(connector_name1, connector_name2)
    IN  IF name1 = name2
        THEN AppendLabel(g2, name1, combo)
        ELSE AppendLabel(AppendLabel(g2, name1, combo), name2, combo)

\* The body of the loop once both points are split into (name, connector).
Connect(graph, name1, connector_name1, name2, connector_name2) ==
    LET g2 == Register(Register(graph, name1), name2)
        combo == combo_name(connector_name1, connector_name2)
    IN  AppendLabel(AppendLabel(g2, name1, combo), name2, combo)

\* Mutant: an entry that does not split into two and two is skipped.
ProcessConnectionLenient(graph, connection) ==
    LET points == split(connection, "$")
    IN  IF Len(points) # 2 THEN Return(graph)
        ELSE LET p1 == split(points[1], ";")
                 p2 == split(points[2], ";")
             IN  IF Len(p1) # 2 \/ Len(p2) # 2 THEN Return(graph)
                 ELSE Return(Connect(graph, p1[1], p1[2], p2[1], p2[2]))

\* One iteration of the loop over resp1["connections"]: the new graph, or
\* the exception an unpacking raises.
ProcessConnection(graph, connection) ==
    LET points == Unpack2(split(connection, "$"))
    IN  IF points.raised THEN points
        ELSE LET p1 == Unpack2(split(points.value[1], ";"))
                 p2 == Unpack2(split(points.value[2], ";"))
             IN  IF p1.raised THEN p1
                 ELSE IF p2.raised THEN p2
                 ELSE Return(Connect(graph, p1.value[1], p1.value[2],
                                     p2.value[1], p2.value[2]))

\* Mutant: a fresh object with the six fields the prompt asks for.
NormalizedAnew(resp, graph) ==
    [k \in {"name", "description", "instruction", "connections", "components", "code"} |->
        IF k = "connections" THEN graph.connections
        ELSE IF k = "components" THEN graph.components
        ELSE resp[k]]

\* Mutant: a components field the description already has is kept.
NormalizedKeepingComponents(resp, graph) ==
    [k \in DOMAIN resp \cup {"connections", "components"} |->
        IF k = "connections" THEN graph.connections
        ELSE IF k = "components" /\ k \notin DOMAIN resp THEN graph.components
        ELSE resp[k]]

\* resp1["connections"] = all_connections; resp1["components"] = all_components
Normalized(resp, graph) ==
    [k \in DOMAIN resp \cup {"connections", "components"} |->
        IF k = "connections" THEN graph.connections
        ELSE IF k = "components" THEN graph.components
        ELSE resp[k]]

\* ------------------------------------------------- what the model sends
\* Component-instance names and connector labels the model may use.
Names == {<<"A">>, <<"B">>, <<"C">>}
Connectors == {<<"1">>, <<"2">>}
\* A name that appears in no connection string.
Unwired == <<"Z">>

Point(name, connector) == name \o <<";">> \o connector

Entry(name1, connector1, name2, connector2) ==
    Point(name1, connector1) \o <<"$">> \o Point(name2, connector2)

\* "<component>;<connector>$<component>;<connector>"
WellFormed ==
    {Entry(n1, c1, n2, c2) : n1 \in Names, c1 \in Connectors,
                             n2 \in Names, c2 \in Connectors}

\* "A$B;2", "A;1$B;2$C;1", "A;1B;2", "A;1$B;2;1"
Malformed ==
    { <<"A">> \o <<"$">> \o Point(<<"B">>, <<"2">>),
      Entry(<<"A">>, <<"1">>, <<"B">>, <<"2">>) \o <<"$">> \o Point(<<"C">>, <<"1">>),
      Point(<<"A">>, <<"1">>) \o Point(<<"B">>, <<"2">>),
      Entry(<<"A">>, <<"1">>, <<"B">>, <<"2">>) \o <<";">> \o <<"1">> }

RawEntries == WellFormed \cup Malformed

\* The fields of a description other than its connections: one with a
\* components field and a field nobody asked for, one with neither.
Envelope ==
    [name |-> "Robot car", description |-> "Two wheels and a dream",
     instruction |-> <<"Wire it", "Flash it">>, code |-> "void setup() {}",
     components |-> <<<<"A">>, Unwired>>, difficulty |-> "easy"]

BareEnvelope ==
    [name |-> "Blinker", description |-> "", instruction |-> <<>>, code |-> ""]

Describe(envelope, connections) == ("connections" :> connections) @@ envelope

\* A sample of the raw entries: a connection, a self-loop, a malformed one.
SampleEntries ==
    { Entry(<<"A">>, <<"1">>, <<"B">>, <<"2">>),
      Entry(<<"A">>, <<"1">>, <<"A">>, <<"2">>),
      <<"A">> \o <<"$">> \o Point(<<"B">>, <<"2">>) }

SampleDescriptions ==
    {Describe(e, c) : e \in {Envelope, BareEnvelope},
                      c \in SeqsUpTo(SampleEntries, 1)}

\* Every list of raw entries in the first envelope, the sample in both, and
\* the two envelopes without a connections field.
Descriptions ==
    {Describe(Envelope, c) : c \in SeqsUpTo(RawEntries, MaxConn)}
    \cup SampleDescriptions
    \cup {Envelope, BareEnvelope}

NotJson == [kind |-> "text", value |-> "Sure! Here is a project"]

\* What a response's content may be.
Contents == {json_dumps(d) : d \in Descriptions} \cup {NotJson}

\* After a round of tool calls the stub client answers from the sample, so
\* that conversations and descriptions do not multiply.
FinalContents == {json_dumps(d) : d \in SampleDescriptions} \cup {NotJson}

\* The tool calls a response may propose, before ids are given.
ToolFunctions ==
    { [name |-> "get_component_info",
       arguments |-> json_dumps([component_name |-> "DC Motor"])],
      [name |-> "get_component_info",
       arguments |-> json_dumps([component_name |-> "Servo"])],
      [name |-> "get_component_info",
       arguments |-> json_dumps([component |-> "DC Motor"])],
      [name |-> "get_component_info",
       arguments |-> [kind |-> "text", value |-> "DC Motor"]],
      [name |-> "get_all_components", arguments |-> json_dumps(<<>>)],
      [name |-> "get_project_templates", arguments |-> json_dumps(<<>>)],
      [name |-> "get_wiring", arguments |-> json_dumps(<<>>)] }

\* The i-th tool call of a response has its own id.
ToolCalls(functions) ==
    [i \in 1..Len(functions) |->
        [id |-> <<"call", i>>, type |-> "function", function |-> functions[i]]]

ToolCallLists == {ToolCalls(f) : f \in SeqsUpTo(ToolFunctions, MaxToolCalls)}

Message(content, tool_calls) == [content |-> content, tool_calls |-> tool_calls]

\* The first response: a description at once, or a plan with tool calls.
FirstResponses ==
    {Message(c, <<>>) : c \in Contents}
    \cup {Message(NotJson, t) : t \in ToolCallLists \ {<<>>}}

\* The response to the second request; it may propose tool calls again.
FinalResponses ==
    {Message(c, t) : c \in FinalContents,
                     t \in {<<>>, ToolCalls(<<CHOOSE f \in ToolFunctions :
                                                f.name = "get_all_components">>)}}

\* The materials the caller lists: one part that gets wired, one that never is.
MaterialsLists == {<<<<"A">>, Unwired>>}

\* ------------------------------------------------------------- actions
Init ==
    /\ objects_using \in MaterialsLists
    /\ pc = "start"
    /\ messages = InitialMessages(objects_using)
    /\ requests = <<>>
    /\ response = None
    /\ tc = 0
    /\ resp1 = None
    /\ all_components = <<>>
    /\ all_connections = <<>>
    /\ ci = 0
    /\ result = None
    /\ catalog = COMPONENT_DATABASE

\* The except clause: the exception becomes the returned error object.
Fail(e) ==
    /\ result' = ErrorResult(e)
    /\ pc' = "done"

\* co.chat(model, messages, tools=TOOLS, response_format): the first request.
FirstRequest ==
    /\ pc = "start"
    /\ requests' = Append(requests, [messages |-> messages, tools |-> TOOLS])
    /\ pc' = "awaiting-model"
    /\ UNCHANGED <<objects_using, messages, response, tc, resp1, all_components,
                   all_connections, ci, result, catalog>>

\* The first response arrives; with tool calls, the assistant message is
\* appended and the tool calls are next, else the response is final.
FirstResponse ==
    /\ pc = "awaiting-model"
    /\ \E r \in FirstResponses :
        /\ response' = r
        /\ IF r.tool_calls # <<>>
           THEN /\ messages' = Append(messages, AssistantMessage(r))
                /\ pc' = "executing-tools"
           ELSE /\ messages' = messages
                /\ pc' = "parsing"
    /\ UNCHANGED <<objects_using, requests, tc, resp1, all_components,
                   all_connections, ci, result, catalog>>

\* co.chat raises (transport error, API error): caught, reported, not retried.
ChatFails ==
    /\ pc \in {"awaiting-model", "awaiting-final-response"}
    /\ Fail("APIError")
    /\ UNCHANGED <<objects_using, messages, requests, response, tc, resp1,
                   all_components, all_connections, ci, catalog>>

\* One iteration of the loop over response.message.tool_calls.
ExecuteToolCall ==
    /\ pc = "executing-tools"
    /\ tc < Len(response.tool_calls)
    /\ LET tool_call == response.tool_calls[tc + 1]
           tool_result == handle_tool_call(tool_call)
       IN  IF tool_result.raised
           THEN /\ Fail(tool_result.value)
                /\ UNCHANGED <<messages, tc>>
           ELSE /\ messages' = Append(messages, ToolMessage(tool_call, tool_result.value))
                /\ tc' = tc + 1
                /\ UNCHANGED <<pc, result>>
    /\ UNCHANGED <<objects_using, requests, response, resp1, all_components,
                   all_connections, ci, catalog>>

\* co.chat(model, messages, response_format): the second request, after the
\* last tool call.
FinalRequest ==
    /\ pc = "executing-tools"
    /\ tc = Len(response.tool_calls)
    /\ requests' = Append(requests, [messages |-> messages, tools |-> <<>>])
    /\ pc' = "awaiting-final-response"
    /\ UNCHANGED <<objects_using, messages, response, tc, resp1, all_components,
                   all_connections, ci, result, catalog>>

\* Mutant: tool calls of the second response start another round.
FinalResponseAgain ==
    /\ pc = "awaiting-final-response"
    /\ \E r \in FinalResponses :
        /\ response' = r
        /\ IF r.tool_calls # <<>>
           THEN /\ messages' = Append(messages, AssistantMessage(r))
                /\ pc' = "executing-tools"
                /\ tc' = 0
           ELSE /\ pc' = "parsing"
                /\ UNCHANGED <<messages, tc>>
    /\ UNCHANGED <<objects_using, requests, resp1, all_components,
                   all_connections, ci, result, catalog>>

\* The response to the second request is the final one.
FinalResponse ==
    /\ pc = "awaiting-final-response"
    /\ \E r \in FinalResponses : response' = r
    /\ pc' = "parsing"
    /\ UNCHANGED <<objects_using, messages, requests, tc, resp1, all_components,
                   all_connections, ci, result, catalog>>

\* resp1 = json.loads(content); the two lists start empty; the loop reads
\* resp1["connections"].
ParseResponse ==
    /\ pc = "parsing"
    /\ LET parsed == json_loads(response.content)
       IN  IF parsed.raised
           THEN /\ Fail(parsed.value)
                /\ UNCHANGED <<resp1, all_components, all_connections, ci>>
           ELSE /\ resp1' = parsed.value
                /\ all_components' = <<>>
                /\ all_connections' = <<>>
                /\ ci' = 0
                /\ IF "connections" \in DOMAIN parsed.value
                   THEN /\ pc' = "normalizing"
                        /\ UNCHANGED result
                   ELSE Fail("KeyError")
    /\ UNCHANGED <<objects_using, messages, requests, response, tc, catalog>>

\* One iteration of the loop over resp1["connections"].
NormalizeStep ==
    /\ pc = "normalizing"
    /\ ci < Len(resp1["connections"])
    /\ LET step == ProcessConnection(Graph(all_components, all_connections),
                                     resp1["connections"][ci + 1])
       IN  IF step.raised
           THEN /\ Fail(step.value)
                /\ UNCHANGED <<all_components, all_connections, ci>>
           ELSE /\ all_components' = step.value.components
                /\ all_connections' = step.value.connections
                /\ ci' = ci + 1
                /\ UNCHANGED <<pc, result>>
    /\ UNCHANGED <<objects_using, messages, requests, response, tc, resp1, catalog>>

\* After the loop: the two fields are replaced and resp1 is returned.
FinishNormalize ==
    /\ pc = "normalizing"
    /\ ci = Len(resp1["connections"])
    /\ resp1' = Normalized(resp1, Graph(all_components, all_connections))
    /\ result' = resp1'
    /\ pc' = "done"
    /\ UNCHANGED <<objects_using, messages, requests, response, tc, all_components,
                   all_connections, ci, catalog>>

Next ==
    \/ FirstRequest
    \/ FirstResponse
    \/ ChatFails
    \/ ExecuteToolCall
    \/ FinalRequest
    \/ FinalResponse
    \/ ParseResponse
    \/ NormalizeStep
    \/ FinishNormalize

Spec == Init /\ [][Next]_vars

\* =========================================================== properties
\* The raw description the final response carried, and its raw connections.
RawDescription == response.content.value
RawList == RawDescription["connections"]

\* The call parsed its final response and found a connections field.
Parsed == pc \in {"normalizing", "done"} /\ "connections" \in DOMAIN resp1

\* The call returned a description, not an error object.
Succeeded == pc = "done" /\ "error" \notin DOMAIN result

\* The grammar, read off the string without split: n1;c1$n2;c2.
Occurrences(s, ch) == Cardinality({i \in 1..Len(s) : s[i] = ch})

IsWellFormed(e) ==
    /\ Occurrences(e, "$") = 1
    /\ LET k == CHOOSE i \in 1..Len(e) : e[i] = "$"
       IN  /\ Occurrences(SubSeq(e, 1, k - 1), ";") = 1
           /\ Occurrences(SubSeq(e, k + 1, Len(e)), ";") = 1

WellFormedList(raw) == \A i \in 1..Len(raw) : IsWellFormed(raw[i])

\* <<name1, connector1, name2, connector2>> of a well-formed entry.
Endpoints(e) ==
    LET d == CHOOSE i \in 1..Len(e) : e[i] = "$"
        a == CHOOSE i \in 1..(d - 1) : e[i] = ";"
        b == CHOOSE i \in (d + 1)..Len(e) : e[i] = ";"
    IN  <<SubSeq(e, 1, a - 1), SubSeq(e, a + 1, d - 1),
          SubSeq(e, d + 1, b - 1), SubSeq(e, b + 1, Len(e))>>

LabelOf(e) == Endpoints(e)[2] \o <<"/">> \o Endpoints(e)[4]

Referenced(raw) ==
    UNION {{Endpoints(raw[i])[1], Endpoints(raw[i])[3]} : i \in 1..Len(raw)}

RECURSIVE TotalLabels(_)
TotalLabels(connections) ==
    IF connections = <<>> THEN 0
    ELSE Len(Head(connections)) + TotalLabels(Tail(connections))

\* ------------------------------------------------------------------ C1
\* C1: for a well-formed raw list of length n the call succeeds, the
\* normalized components has as many entries as there are distinct names
\* referenced by the n strings, and the pair-labels of all connection lists
\* together number 2n; duplicate strings count separately.
C1_CountsAndTotal ==
    (pc = "done" /\ Parsed /\ WellFormedList(RawList)) =>
        /\ Succeeded
        /\ Len(result["components"]) = Cardinality(Referenced(RawList))
        /\ TotalLabels(result["connections"]) = 2 * Len(RawList)

\* A successful run on two byte-identical strings.
C1_Witness ==
    /\ Succeeded
    /\ Len(RawList) = 2
    /\ RawList[1] = RawList[2]
    /\ TotalLabels(result["connections"]) = 4

\* ------------------------------------------------------------------ C2
\* Position of the first occurrence of a name: strings in input order, the
\* first endpoint of a string before its second.
FirstSeen(raw, name) ==
    LET at == {2 * (k - 1) + s : k \in 1..Len(raw), s \in {1, 2}}
        hit == {n \in at : Endpoints(raw[(n + 1) \div 2])
                               [IF n % 2 = 1 THEN 1 ELSE 3] = name}
    IN  CHOOSE n \in hit : \A m \in hit : n <= m

\* C2: for a well-formed raw list the normalized components holds every
\* referenced name exactly once, and X precedes Y exactly when X is first
\* seen before Y.
C2_FirstSeenOrder ==
    (Succeeded /\ WellFormedList(RawList)) =>
        LET components == result["components"]
        IN  /\ Range(components) = Referenced(RawList)
            /\ \A i, j \in 1..Len(components) :
                  /\ (i # j => components[i] # components[j])
                  /\ (i < j <=> FirstSeen(RawList, components[i])
                                  < FirstSeen(RawList, components[j]))

\* ["A;1$B;2", "C;1$A;2"] gives ["A", "B", "C"], and ["C;1$B;2", "A;1$C;2"]
\* gives ["C", "B", "A"]: the first is reached, so is an unsorted order.
C2_Witness ==
    /\ Succeeded
    /\ RawList = <<Entry(<<"C">>, <<"1">>, <<"B">>, <<"2">>),
                   Entry(<<"A">>, <<"1">>, <<"C">>, <<"2">>)>>
    /\ result["components"] = <<<<"C">>, <<"B">>, <<"A">>>>

\* ------------------------------------------------------------------ C3
\* The labels of the first k strings that have `name` as an endpoint, one
\* label per string.
RECURSIVE IncidentStrings(_, _, _)
IncidentStrings(raw, k, name) ==
    IF k = 0 THEN <<>>
    ELSE IncidentStrings(raw, k - 1, name)
         \o (IF name \in {Endpoints(raw[k])[1], Endpoints(raw[k])[3]}
             THEN <<LabelOf(raw[k])>> ELSE <<>>)

\* The same, one label per endpoint of a string that names `name`.
RECURSIVE IncidentEndpoints(_, _, _)
IncidentEndpoints(raw, k, name) ==
    IF k = 0 THEN <<>>
    ELSE IncidentEndpoints(raw, k - 1, name)
         \o (IF Endpoints(raw[k])[1] = name THEN <<LabelOf(raw[k])>> ELSE <<>>)
         \o (IF Endpoints(raw[k])[3] = name THEN <<LabelOf(raw[k])>> ELSE <<>>)

\* C3 as claimed: after any prefix of a well-formed list the two lists are
\* equally long and connections[i] is the sequence of the labels
\* connector1/connector2 of the processed strings that have components[i] as
\* an endpoint.
C3_Original ==
    (Parsed /\ WellFormedList(RawList)) =>
        /\ Len(all_components) = Len(all_connections)
        /\ \A i \in 1..Len(all_components) :
              all_connections[i] = IncidentStrings(RawList, ci, all_components[i])

\* C3 amended: the same, a string contributing its label once for each of
\* its endpoints that names components[i] (twice for a self-loop).
C3_PerEndpoint ==
    (Parsed /\ WellFormedList(RawList)) =>
        /\ Len(all_components) = Len(all_connections)
        /\ \A i \in 1..Len(all_components) :
              all_connections[i] = IncidentEndpoints(RawList, ci, all_components[i])

\* After the first of two strings, and at the end, with connectors that
\* differ: "A;1$B;2", "A;2$B;1" gives [["1/2", "2/1"], ["1/2", "2/1"]].
C3_Witness ==
    /\ Succeeded
    /\ RawList = <<Entry(<<"A">>, <<"1">>, <<"B">>, <<"2">>),
                   Entry(<<"A">>, <<"2">>, <<"B">>, <<"1">>)>>
    /\ all_connections = << << <<"1", "/", "2">>, <<"2", "/", "1">> >>,
                            << <<"1", "/", "2">>, <<"2", "/", "1">> >> >>

\* ------------------------------------------------------------------ C4
\* C4: a step that processes a well-formed string whose two endpoints name
\* the same component leaves that name in components exactly once and
\* appends the label twice, consecutively, to that component's list.
C4_SelfLoopStep ==
    (/\ pc = "normalizing"
     /\ ci' = ci + 1
     /\ IsWellFormed(resp1["connections"][ci + 1])
     /\ Endpoints(resp1["connections"][ci + 1])[1]
          = Endpoints(resp1["connections"][ci + 1])[3])
    => LET e == resp1["connections"][ci + 1]
           name == Endpoints(e)[1]
           before == IF name \in Range(all_components)
                     THEN all_connections[index(all_components, name)]
                     ELSE <<>>
       IN  /\ Cardinality({i \in 1..Len(all_components') :
                              all_components'[i] = name}) = 1
           /\ Len(all_connections') = Len(all_components')
           /\ all_connections'[index(all_components', name)]
                = before \o <<LabelOf(e), LabelOf(e)>>

\* C4: every step of the call treats a self-loop string that way.
C4_SelfLoop == [][C4_SelfLoopStep]_vars

\* ["A;1$A;2"] gives components ["A"] and connections [["1/2", "1/2"]].
C4_Witness ==
    /\ Succeeded
    /\ RawList = <<Entry(<<"A">>, <<"1">>, <<"A">>, <<"2">>)>>
    /\ result["components"] = <<<<"A">>>>
    /\ result["connections"] = << << <<"1", "/", "2">>, <<"1", "/", "2">> >> >>

\* ------------------------------------------------------------------ C5
\* C5: when any entry of the raw list is malformed, wherever it stands, the
\* call returns an error object and nothing else: no components and no
\* connections built from the entries before it.
C5_MalformedFails ==
    (pc = "done" /\ Parsed /\ ~WellFormedList(RawList)) =>
        /\ DOMAIN result = {"error"}
        /\ result # resp1

\* A malformed entry after a well-formed one: the graph was partly built
\* when the call failed.
C5_Witness ==
    /\ pc = "done"
    /\ Parsed
    /\ Len(RawList) = 2
    /\ IsWellFormed(RawList[1])
    /\ RawList[2] = <<"A">> \o <<"$">> \o Point(<<"B">>, <<"2">>)
    /\ ci = 1
    /\ Len(all_components) > 0
    /\ DOMAIN result = {"error"}

\* ------------------------------------------------------------------ C6
\* C6: on success the result has the raw description's fields plus
\* components and connections, and every field other than those two has
\* the value it had in the raw description.
C6_OtherFieldsKept ==
    Succeeded =>
        /\ DOMAIN result = DOMAIN RawDescription \cup {"components", "connections"}
        /\ \A k \in DOMAIN RawDescription \ {"components", "connections"} :
              result[k] = RawDescription[k]

\* A success whose raw description had a further field and whose two
\* normalized fields differ from the raw ones.
C6_Witness ==
    /\ Succeeded
    /\ "difficulty" \in DOMAIN RawDescription
    /\ result["difficulty"] = "easy"
    /\ result["instruction"] = <<"Wire it", "Flash it">>
    /\ result["connections"] # RawDescription["connections"]
    /\ result["components"] # RawDescription["components"]

\* ------------------------------------------------------------------ C7
\* C7: on success the normalized components holds only names that the raw
\* connection strings reference, each with its entry in connections; what
\* the raw components field or the materials list name plays no part.
C7_OnlyWiredNames ==
    Succeeded =>
        /\ Range(result["components"]) = Referenced(RawList)
        /\ Len(result["connections"]) = Len(result["components"])
        /\ \A name \in Range(objects_using) \cup
                      (IF "components" \in DOMAIN RawDescription
                       THEN Range(RawDescription["components"]) ELSE {}) :
              name \notin Referenced(RawList) => name \notin Range(result["components"])

\* Z is a material and a raw component, A is a raw component too; the
\* strings wire only B and C, and only those are in the result.
C7_Witness ==
    /\ Succeeded
    /\ Unwired \in Range(objects_using)
    /\ "components" \in DOMAIN RawDescription
    /\ RawDescription["components"] = <<<<"A">>, Unwired>>
    /\ RawList = <<Entry(<<"B">>, <<"1">>, <<"C">>, <<"2">>)>>
    /\ result["components"] = <<<<"B">>, <<"C">>>>

\* ------------------------------------------------------------------ C9
\* The tool calls of the first response, as the assistant message repeats
\* them, and the number of them that have a tool message.
ProposedCalls == IF Len(messages) >= 3 THEN messages[3].tool_calls ELSE <<>>
ExecutedCalls == IF Len(messages) >= 3 THEN Len(messages) - 3 ELSE 0

\* A tool call that names the lookup and gives it a component_name.
IsLookup(call) ==
    /\ call.function.name = "get_component_info"
    /\ call.function.arguments.kind = "json"
    /\ "component_name" \in DOMAIN call.function.arguments.value

LookupName(call) == call.function.arguments.value["component_name"]

IsErrorValue(text) == text.kind = "json" /\ "error" \in DOMAIN text.value

\* The exchange ended while the tool calls were being executed.
ToolRaised ==
    pc = "done" /\ Len(requests) = 1 /\ ExecutedCalls < Len(ProposedCalls)

\* C9: a lookup of a name that is no catalog key gives an error object as
\* its result and a lookup of a catalog key gives that component's spec; a
\* call of an unknown tool gives an error object; none of these raises; the
\* catalog stays as it was loaded.
C9_LookupNeverRaises ==
    /\ catalog = COMPONENT_DATABASE
    /\ \A k \in 1..ExecutedCalls :
          LET call == ProposedCalls[k]
              content == messages[3 + k].content
          IN  /\ IsLookup(call) =>
                    IF LookupName(call) \in DOMAIN COMPONENT_DATABASE.components
                    THEN content =
                           json_dumps(COMPONENT_DATABASE.components[LookupName(call)])
                    ELSE IsErrorValue(content)
              /\ call.function.name \notin Range(TOOLS) => IsErrorValue(content)
    /\ ToolRaised =>
          LET call == ProposedCalls[ExecutedCalls + 1]
          IN  ~IsLookup(call) /\ call.function.name \in Range(TOOLS)

\* The lookup of "Servo" and the call of "get_wiring" both got an error
\* object as their tool message.
C9_Witness ==
    /\ ExecutedCalls = 2
    /\ IsLookup(ProposedCalls[1])
    /\ LookupName(ProposedCalls[1]) = "Servo"
    /\ IsErrorValue(messages[4].content)
    /\ ProposedCalls[2].function.name = "get_wiring"
    /\ IsErrorValue(messages[5].content)

\* ----------------------------------------------------------------- C10
Phase ==
    [p \in {"start", "awaiting-model", "executing-tools",
            "awaiting-final-response", "parsing", "normalizing", "done"} |->
        CASE p = "start" -> 0
          [] p = "awaiting-model" -> 1
          [] p = "executing-tools" -> 2
          [] p = "awaiting-final-response" -> 3
          [] p = "parsing" -> 4
          [] p = "normalizing" -> 5
          [] p = "done" -> 6]

\* At most two requests; the second only after a first response with tool
\* calls, carrying the assistant message and then one tool message per
\* call, in the order proposed, each with its call's id and result; nothing
\* is executed or appended after the second request.
C10_Exchange ==
    /\ Len(requests) <= 2
    /\ Len(requests) = 0 <=> pc = "start"
    /\ Len(requests) = 2 =>
          LET sent == requests[2].messages
              calls == sent[3].tool_calls
          IN  /\ Len(calls) > 0
              /\ sent[3].role = "assistant"
              /\ Len(sent) = 3 + Len(calls)
              /\ \A k \in 1..Len(calls) :
                    /\ sent[3 + k].role = "tool"
                    /\ sent[3 + k].tool_call_id = calls[k].id
                    /\ sent[3 + k].content = handle_tool_call(calls[k]).value
              /\ messages = sent
              /\ pc \in {"awaiting-final-response", "parsing", "normalizing", "done"}
    /\ pc = "awaiting-final-response" => Len(requests) = 2
    /\ (pc \in {"parsing", "normalizing"} /\ Len(requests) = 1) =>
          Len(messages) = 2

\* Every step moves forward: the phases come in the order awaiting-model,
\* executing-tools, awaiting-final-response, done (parsing and normalizing
\* before done), a step that stays in a phase executes the next tool call or
\* the next connection string, a request is sent only on entering an
\* awaiting phase, and nothing follows done.
C10_Forward ==
    /\ pc # "done"
    /\ Phase[pc'] >= Phase[pc]
    /\ Phase[pc'] = Phase[pc] =>
          \/ pc = "executing-tools" /\ tc' = tc + 1
          \/ pc = "normalizing" /\ ci' = ci + 1
    /\ pc' = "executing-tools" => pc \in {"awaiting-model", "executing-tools"}
    /\ pc' = "awaiting-final-response" =>
          pc = "executing-tools" /\ tc = Len(response.tool_calls)
    /\ IF pc' \in {"awaiting-model", "awaiting-final-response"}
       THEN Len(requests') = Len(requests) + 1
       ELSE requests' = requests

\* C10: the exchange makes at most two requests and goes through its
\* phases in order, each step moving forward, so it ends; the second request
\* follows the tool calls of the first response, each executed once in the
\* order proposed, and its response is final.
C10_TwoRequests == []C10_Exchange /\ [][C10_Forward]_vars

\* Two tool calls were executed, the second request was sent, its response
\* proposed a tool call again, and the call returned a description.
C10_Witness ==
    /\ Succeeded
    /\ Len(requests) = 2
    /\ Len(messages) = 5
    /\ Len(response.tool_calls) = 1

====
